---- MODULE Spec2Model ----
(***************************************************************************)
(* Model of catboost/tools/model_perftest/lib/main.cpp: the benchmark      *)
(* driver DoMain (block partitioning, module construction and baseline     *)
(* selection, the repetition/module/layout/block execution loop), the      *)
(* results registry TResults, the canon validator TCanonData and main's    *)
(* top-level exception handler.                                            *)
(*                                                                         *)
(* Conventions.  C++ vectors are functions over 0..n-1 (the source's own   *)
(* indices) except `modules` and the logs, which are sequences.  A TString *)
(* is a natural number, 0 being the empty string, and the lexicographic    *)
(* order of TMap<TString,...> is the order of the numbers.  A timing       *)
(* sample returned by Do is the ordinal of the invocation that produced    *)
(* it (distinct invocations are distinct measurements).  A double of       *)
(* TCanonData is an integer count of units of 1e-6.                        *)
(***************************************************************************)
EXTENDS Integers, Sequences, FiniteSets, TLC

\* ---------------------------------------------------------------- bounds
MaxDocs == 3

MaxReps == 2

\* Pool sizes of the specification that stops once the blocks are built.
MaxPoolDocs == 7

FactorsCount == 2

MaxCanonLen == 2

MaxCanonCalls == 2

\* ------------------------------------------------------ program constants
\* Min<int>(), the initial value of biggestPriority.
MinInt == -2147483647 - 1

\* TCanonData::Epsilon, in units of 1e-6.
Epsilon == 1

\* ---------------------------------------------------------- input domains
ObjectsFirst == "ObjectsFirst"

FeaturesFirst == "FeaturesFirst"

Layouts == {ObjectsFirst, FeaturesFirst}

\* Display names a module may report; 0 is the empty TString.
Names == {0, 1, 2}

\* Comparison priorities a module may report (any int, Min<int>() included).
Priorities == {MinInt, 1, 2}

\* What TPerftestModuleFactory::Construct may return for a key: a module is
\* characterised by what its three const queries answer for each layout.
ModuleKinds ==
    [name : [Layouts -> Names],
     supports : [Layouts -> BOOLEAN],
     priority : [Layouts -> Priorities]]

\* The module kinds of the specification that runs the whole program.  After
\* the key loop the driver never reads a priority again, so only which layout
\* of a module ranks higher is varied there; SpecSelect, which stops at the
\* end of the key loop, draws from all of ModuleKinds.
RunKinds ==
    {kind \in ModuleKinds :
        kind.priority \in {[l \in Layouts |-> IF l = ObjectsFirst THEN 2 ELSE 1],
                           [l \in Layouts |-> IF l = ObjectsFirst THEN 1 ELSE 2]}}

\* allRegisteredKeys, the sorted key set of the factory (lines 224-225).
allRegisteredKeys == {1, 2}

NumKeys == Cardinality(allRegisteredKeys)

\* Block counts a TCanonData is constructed with, and the doubles (in units of
\* 1e-6) a block result may hold: 0 and 1 are within Epsilon of each other, 3
\* is not within Epsilon of either.
CanonBlockCounts == {1, 2}

CanonValues == {0, 1, 3}

\* --block-size values for pools of at most maxDocs documents.  The default
\* Max<size_t>() exceeds every object count; maxDocs + 1 stands for it and for
\* every other size above the pool's.
BlockSizeOptions(maxDocs) == 0..(maxDocs + 1)

VARIABLES
    pc,                  \* position in main/DoMain (or "canon" for the validator alone)
    exitCode,            \* <<main's return value>> once main returned, else <<>>
    docsCount,           \* dataset->GetObjectCount()
    BlockSize,           \* options.BlockSize
    RepetitionCount,     \* options.RepetitionCount
    blockCount,
    blockId,             \* loop variable of the current block loop
    transpFactorsRef,    \* [blockId][feature] -> array ref (begin, size) into the column
    nonTranspFactorsRef, \* [blockId][docId] -> the copied feature vector of one document
    keyIdx,              \* next key of allRegisteredKeys to construct
    modules,
    biggestPriority,
    BaseResultName,      \* results.BaseResultName
    Results,             \* results.Results: name -> Times of its TTimingResult
    i,                   \* repetition loop variable
    modIdx,              \* position of `module` in modules
    layout,              \* which of the two `if (SupportsLayout(..))` blocks
    cerrKeys,            \* keys of the "Failed to construct module" lines on Cerr
    calls,               \* history: every Do invocation, in order
    report,              \* lines written to the info log by OutputResults
    resultsFile,         \* <<content of results.json>>, <<>> until it is written
    canon,               \* TCanonData::Results
    canonCalls,          \* history: every CheckOrSet call, in order
    canonDiag            \* diagnostics written to Cerr by the last CheckOrSet

vars == <<pc, exitCode, docsCount, BlockSize, RepetitionCount, blockCount, blockId,
          transpFactorsRef, nonTranspFactorsRef, keyIdx, modules, biggestPriority,
          BaseResultName, Results, i, modIdx, layout, cerrKeys, calls, report,
          resultsFile, canon, canonCalls, canonDiag>>

driverVars == <<exitCode, docsCount, BlockSize, RepetitionCount, blockCount, blockId,
                transpFactorsRef, nonTranspFactorsRef, keyIdx, modules, biggestPriority,
                BaseResultName, Results, i, modIdx, layout, cerrKeys, calls, report,
                resultsFile>>

\* ------------------------------------------------------------- helpers
MinOf(a, b) == IF a < b THEN a ELSE b

EmptyMap == [n \in {} |-> <<>>]

\* The value of feature f of document d in the column storage, identified by
\* its place: getFeatureDataBeginPtr(f)[d].
Cell(f, d) == <<f, d>>

\* ------------------------------------------------- IPerftestModule queries
GetName(module, l) == module.name[l]

SupportsLayout(module, l) == module.supports[l]

GetComparisonPriority(module, l) == module.priority[l]

\* ------------------------------------------------------------ TResults
\* TResults::UpdateResult: look up or create the aggregator, then Add(time).
UpdateResult(results, name, time) ==
    IF name \in DOMAIN results
        THEN [results EXCEPT ![name] = Append(@, time)]
        ELSE [n \in (DOMAIN results) \cup {name} |->
                IF n = name THEN <<time>> ELSE results[n]]

\* ------------------------------------------------------------- DoMain
\* Faulty variant of EffectiveBlockSize: the configured size is not capped by the pool.
ConfiguredBlockSize(configured, docs) == configured

\* Min(options.BlockSize, docCount), line 186.
EffectiveBlockSize(configured, docs) == MinOf(configured, docs)

\* Faulty variant of BlockCountOf: the division rounds up, a last short block is kept.
BlockCountRoundedUp(docs, size) == (docs + size - 1) \div size

\* Y_ENSURE(options.BlockSize > 0, "Empty pool"), line 187.
BlockSizeOk(size) == size > 0

\* blockCount = docsCount / options.BlockSize, line 189.
BlockCountOf(docs, size) == docs \div size

\* Lines 186-197: the effective block size, the fail-fast check, the block
\* count and the (still empty) per-block vectors.  A failed Y_ENSURE throws;
\* main's catch (...) prints the message and returns -1.
ComputeBlockSize ==
    /\ pc = "size"
    /\ LET size == EffectiveBlockSize(BlockSize, docsCount) IN
       /\ BlockSize' = size
       /\ IF BlockSizeOk(size)
            THEN /\ blockCount' = BlockCountOf(docsCount, size)
                 /\ transpFactorsRef' = [b \in 0..(blockCount' - 1) |-> <<>>]
                 /\ nonTranspFactorsRef' = [b \in 0..(blockCount' - 1) |-> <<>>]
                 /\ blockId' = 0
                 /\ pc' = "blocks"
                 /\ exitCode' = exitCode
            ELSE /\ pc' = "aborted"
                 /\ exitCode' = <<-1>>
                 /\ UNCHANGED <<blockCount, transpFactorsRef, nonTranspFactorsRef, blockId>>
    /\ UNCHANGED cerrKeys
    /\ UNCHANGED <<docsCount, RepetitionCount, keyIdx, modules, biggestPriority,
                   BaseResultName, Results, i, modIdx, layout, calls, report,
                   resultsFile, canon, canonCalls, canonDiag>>

\* blockStart, line 199.
BlockStart(size, b) == size * b

\* docsInCurrBlock, line 200.
DocsInCurrBlock(size, docs, b) == MinOf(size, docs - size * b)

\* One iteration of the loop of lines 198-219: the features-first view is one
\* array ref per feature into the column, the objects-first view a copy of
\* each document's values.
MaterializeBlock ==
    /\ pc = "blocks"
    /\ blockId < blockCount
    /\ LET blockStart == BlockStart(BlockSize, blockId)
           docsInCurrBlock == DocsInCurrBlock(BlockSize, docsCount, blockId)
       IN
       /\ transpFactorsRef' = [transpFactorsRef EXCEPT ![blockId] =
              [f \in 0..(FactorsCount - 1) |->
                  [begin |-> blockStart, size |-> docsInCurrBlock]]]
       /\ nonTranspFactorsRef' = [nonTranspFactorsRef EXCEPT ![blockId] =
              [docId \in 0..(docsInCurrBlock - 1) |->
                  [f \in 0..(FactorsCount - 1) |-> Cell(f, blockStart + docId)]]]
    /\ blockId' = blockId + 1
    /\ pc' = "blocks"
    /\ UNCHANGED cerrKeys
    /\ UNCHANGED <<exitCode, docsCount, BlockSize, RepetitionCount, blockCount, keyIdx,
                   modules, biggestPriority, BaseResultName, Results, i, modIdx,
                   layout, calls, report, resultsFile, canon, canonCalls, canonDiag>>

\* TCanonData::TCanonData(blockCount), lines 120-122.
NewCanonData(count) == [b \in 0..(count - 1) |-> <<>>]

\* Leaving the block loop: lines 220-226 declare results, canonData(blockCount),
\* modules and biggestPriority = Min<int>(), and read the registered keys.
DeclareResults ==
    /\ pc = "blocks"
    /\ ~(blockId < blockCount)
    /\ Results' = EmptyMap
    /\ BaseResultName' = 0
    /\ canon' = NewCanonData(blockCount)
    /\ modules' = <<>>
    /\ biggestPriority' = MinInt
    /\ keyIdx' = 1
    /\ pc' = "construct"
    /\ UNCHANGED cerrKeys
    /\ UNCHANGED <<exitCode, docsCount, BlockSize, RepetitionCount, blockCount, blockId,
                   transpFactorsRef, nonTranspFactorsRef, i, modIdx, layout, calls,
                   report, resultsFile, canonCalls, canonDiag>>

\* Where control is once the key loop (line 227) or one `if` block of the
\* module loop is left: the loop headers of lines 244-245 and the two `if`s.
Position(p, rep, m, l) == [pc |-> p, i |-> rep, modIdx |-> m, layout |-> l]

\* Entering the repetition loop at i = 0 (line 244).
EnterRun(reps, mods) ==
    IF 0 < reps /\ Len(mods) > 0
        THEN Position("layout", 0, 1, ObjectsFirst)
        ELSE Position("output", reps, 0, ObjectsFirst)

\* Faulty variant of AfterLayout: the repetition loop runs once too often.
AfterLayoutOneMore(reps, mods, rep, m, l) ==
    IF l = ObjectsFirst THEN Position("layout", rep, m, FeaturesFirst)
    ELSE IF m < Len(mods) THEN Position("layout", rep, m + 1, ObjectsFirst)
    ELSE IF rep + 1 <= reps THEN Position("layout", rep + 1, 1, ObjectsFirst)
    ELSE Position("output", rep + 1, 0, ObjectsFirst)

\* After the `if` block of layout l of module m in repetition rep.
AfterLayout(reps, mods, rep, m, l) ==
    IF l = ObjectsFirst THEN Position("layout", rep, m, FeaturesFirst)
    ELSE IF m < Len(mods) THEN Position("layout", rep, m + 1, ObjectsFirst)
    ELSE IF rep + 1 < reps THEN Position("layout", rep + 1, 1, ObjectsFirst)
    ELSE Position("output", rep + 1, 0, ObjectsFirst)

GoTo(pos) ==
    /\ pc' = pos.pc
    /\ i' = pos.i
    /\ modIdx' = pos.modIdx
    /\ layout' = pos.layout

\* Faulty variant of Beats: a later pair of equal priority replaces the baseline.
BeatsOrTies(priority, biggest) == priority >= biggest

\* `priority > biggestPriority`, lines 230 and 234.
Beats(priority, biggest) == priority > biggest

\* Lines 230-237 for the module just constructed: first ObjectsFirst, then
\* FeaturesFirst against the possibly updated biggestPriority.
SelectBaseline(module, biggest, base) ==
    LET afterOf ==
            IF Beats(GetComparisonPriority(module, ObjectsFirst), biggest)
                THEN [biggest |-> GetComparisonPriority(module, ObjectsFirst),
                      base |-> GetName(module, ObjectsFirst)]
                ELSE [biggest |-> biggest, base |-> base]
    IN  IF Beats(GetComparisonPriority(module, FeaturesFirst), afterOf.biggest)
            THEN [biggest |-> GetComparisonPriority(module, FeaturesFirst),
                  base |-> GetName(module, FeaturesFirst)]
            ELSE afterOf

\* One iteration of the key loop (lines 227-243) in which Construct returns a
\* module: it is appended to modules and considered as baseline.
ConstructOk(kinds) ==
    /\ pc = "construct"
    /\ keyIdx <= NumKeys
    /\ \E kind \in kinds :
        LET module == [key |-> keyIdx, name |-> kind.name,
                       supports |-> kind.supports, priority |-> kind.priority]
            sel == SelectBaseline(module, biggestPriority, BaseResultName)
        IN  /\ modules' = Append(modules, module)
            /\ biggestPriority' = sel.biggest
            /\ BaseResultName' = sel.base
    /\ keyIdx' = keyIdx + 1
    /\ IF keyIdx' <= NumKeys
         THEN UNCHANGED <<pc, i, modIdx, layout>>
         ELSE GoTo(EnterRun(RepetitionCount, modules'))
    /\ UNCHANGED cerrKeys
    /\ UNCHANGED <<exitCode, docsCount, BlockSize, RepetitionCount, blockCount, blockId,
                   transpFactorsRef, nonTranspFactorsRef, Results, calls, report,
                   resultsFile, canon, canonCalls, canonDiag>>

\* Faulty variant of ModulesAfterThrow: a slot is appended before Construct runs and
\* is left behind, default-answering, when it throws.
ModulesWithLeftover(mods, key) ==
    Append(mods, [key |-> key, name |-> [l \in Layouts |-> 0],
                  supports |-> [l \in Layouts |-> TRUE],
                  priority |-> [l \in Layouts |-> MinInt]])

\* What a throwing Construct leaves of modules: emplace_back is never reached.
ModulesAfterThrow(mods, key) == mods

\* One iteration of the key loop in which Construct throws: the exception is
\* caught (lines 238-242), the key is logged and the loop goes on.
ConstructFail ==
    /\ pc = "construct"
    /\ keyIdx <= NumKeys
    /\ modules' = ModulesAfterThrow(modules, keyIdx)
    /\ cerrKeys' = Append(cerrKeys, keyIdx)
    /\ keyIdx' = keyIdx + 1
    /\ IF keyIdx' <= NumKeys
         THEN UNCHANGED <<pc, i, modIdx, layout>>
         ELSE GoTo(EnterRun(RepetitionCount, modules'))
    /\ UNCHANGED <<exitCode, docsCount, BlockSize, RepetitionCount, blockCount, blockId,
                   transpFactorsRef, nonTranspFactorsRef, biggestPriority,
                   BaseResultName, Results, calls, report, resultsFile, canon,
                   canonCalls, canonDiag>>

\* `if (module->SupportsLayout(layout))` and the header of the block loop,
\* lines 246-247 and 254-255.
CheckLayout ==
    /\ pc = "layout"
    /\ IF SupportsLayout(modules[modIdx], layout) /\ 0 < blockCount
         THEN /\ pc' = "do"
              /\ blockId' = 0
              /\ UNCHANGED <<i, modIdx, layout>>
         ELSE /\ GoTo(AfterLayout(RepetitionCount, modules, i, modIdx, layout))
              /\ UNCHANGED blockId
    /\ UNCHANGED cerrKeys
    /\ UNCHANGED <<exitCode, docsCount, BlockSize, RepetitionCount, blockCount,
                   transpFactorsRef, nonTranspFactorsRef, keyIdx, modules,
                   biggestPriority, BaseResultName, Results, calls, report,
                   resultsFile, canon, canonCalls, canonDiag>>

\* The name under which the sample of an invocation in layout l is recorded:
\* the first argument of UpdateResult at line 249 (ObjectsFirst block) and at
\* line 257 (FeaturesFirst block).  Both lines pass GetName(ObjectsFirst).
ResultKey(module, l) ==
    IF l = ObjectsFirst THEN GetName(module, ObjectsFirst)
                        ELSE GetName(module, ObjectsFirst)

\* One iteration of a block loop, lines 248-251 and 256-259: Do on the block's
\* view in the layout, and its sample fed to UpdateResult.
Invoke ==
    /\ pc = "do"
    /\ LET module == modules[modIdx]
           time == Len(calls) + 1
           name == ResultKey(module, layout)
       IN  /\ Results' = UpdateResult(Results, name, time)
           /\ calls' = Append(calls, [rep |-> i, key |-> module.key, layout |-> layout,
                                      block |-> blockId,
                                      name |-> name, time |-> time])
    /\ blockId' = blockId + 1
    /\ IF blockId' < blockCount
         THEN UNCHANGED <<pc, i, modIdx, layout>>
         ELSE GoTo(AfterLayout(RepetitionCount, modules, i, modIdx, layout))
    /\ UNCHANGED cerrKeys
    /\ UNCHANGED <<exitCode, docsCount, BlockSize, RepetitionCount, blockCount,
                   transpFactorsRef, nonTranspFactorsRef, keyIdx, modules,
                   biggestPriority, BaseResultName, report, resultsFile, canon,
                   canonCalls, canonDiag>>

\* ------------------------------------------------------- TTimingResult
RECURSIVE MinElement(_)
MinElement(times) ==
    IF Len(times) = 1 THEN times[1] ELSE MinOf(times[1], MinElement(Tail(times)))

RECURSIVE MaxElement(_)
MaxElement(times) ==
    IF Len(times) = 1 THEN times[1]
    ELSE LET rest == MaxElement(Tail(times)) IN IF times[1] > rest THEN times[1] ELSE rest

RECURSIVE Sum(_)
Sum(times) == IF times = <<>> THEN 0 ELSE times[1] + Sum(Tail(times))

\* TTimingResult::Mean, sum / Times.size(), kept as the exact fraction.
Mean(times) == <<Sum(times), Len(times)>>

\* TTimingResult::GetJsonValue.
GetJsonValue(times) ==
    [min |-> MinElement(times), max |-> MaxElement(times), mean |-> Mean(times)]

\* No aggregator: the null pointer of `const TTimingResult* ref`.
NullRef == <<>>

\* TTimingResult::Output(ref): the three statistics, each with its ratio to
\* ref's statistic (kept as numerator, denominator) when ref is not null.
Output(times, ref) ==
    [min |-> MinElement(times), max |-> MaxElement(times), mean |-> Mean(times),
     ratios |-> IF ref = NullRef THEN <<>>
                ELSE << <<MinElement(times), MinElement(ref)>>,
                        <<MaxElement(times), MaxElement(ref)>>,
                        <<Mean(times), Mean(ref)>> >>]

\* ------------------------------------------------ TResults::OutputResults
\* The keys a range-for over the TMap visits, in order: ascending.
RECURSIVE MapOrder(_)
MapOrder(keys) ==
    IF keys = {} THEN <<>>
    ELSE LET least == CHOOSE k \in keys : \A other \in keys : k <= other
         IN  <<least>> \o MapOrder(keys \ {least})

NameLine(name) == [kind |-> "name", name |-> name]

StatsLine(name, stats) == [kind |-> "stats", name |-> name, stats |-> stats]

\* Faulty variant of SkippedInLoop: the loop does not skip the baseline.
NeverSkipped(key, base) == FALSE

\* `if (key == BaseResultName) continue;`, lines 105-107.
SkippedInLoop(key, base) == key = base

\* The loop of lines 104-111 over the keys still to visit.
RECURSIVE RenderOthers(_, _, _, _)
RenderOthers(order, results, base, ref) ==
    IF order = <<>> THEN <<>>
    ELSE LET key == Head(order) IN
         (IF SkippedInLoop(key, base) THEN <<>>
          ELSE <<NameLine(key), StatsLine(key, Output(results[key], ref))>>)
         \o RenderOthers(Tail(order), results, base, ref)

RECURSIVE JsonOthers(_, _, _, _)
JsonOthers(order, results, base, json) ==
    IF order = <<>> THEN json
    ELSE LET key == Head(order)
             next == IF SkippedInLoop(key, base) THEN json
                     ELSE [n \in (DOMAIN json) \cup {key} |->
                              IF n = key THEN GetJsonValue(results[key]) ELSE json[n]]
         IN  JsonOthers(Tail(order), results, base, next)

\* `if (BaseResultName)`, line 98: a TString is true when it is not empty.
BaseIsSet(base) == base # 0

Header == [kind |-> "header"]

\* results.OutputResults() at line 264 and the return through main.
\* Results.at(BaseResultName) at line 100 throws when the key is absent, after
\* the header and the baseline's name were logged; main's catch (...) returns
\* -1 and results.json is never written.
OutputResults ==
    /\ pc = "output"
    /\ IF BaseIsSet(BaseResultName) /\ BaseResultName \notin DOMAIN Results
         THEN /\ report' = <<Header, NameLine(BaseResultName)>>
              /\ pc' = "aborted"
              /\ exitCode' = <<-1>>
              /\ UNCHANGED resultsFile
         ELSE LET ref == IF BaseIsSet(BaseResultName) THEN Results[BaseResultName]
                         ELSE NullRef
                  first == IF BaseIsSet(BaseResultName)
                             THEN <<NameLine(BaseResultName),
                                    StatsLine(BaseResultName, Output(ref, ref))>>
                             ELSE <<>>
                  json0 == IF BaseIsSet(BaseResultName)
                             THEN [n \in {BaseResultName} |-> GetJsonValue(ref)]
                             ELSE EmptyMap
                  order == MapOrder(DOMAIN Results)
              IN  /\ report' = <<Header>> \o first
                                 \o RenderOthers(order, Results, BaseResultName, ref)
                  /\ resultsFile' = <<JsonOthers(order, Results, BaseResultName, json0)>>
                  /\ pc' = "done"
                  /\ exitCode' = <<0>>
    /\ UNCHANGED cerrKeys
    /\ UNCHANGED <<docsCount, BlockSize, RepetitionCount, blockCount, blockId,
                   transpFactorsRef, nonTranspFactorsRef, keyIdx, modules,
                   biggestPriority, BaseResultName, Results, i, modIdx, layout, calls,
                   canon, canonCalls, canonDiag>>

\* ------------------------------------------------------- specification
\* The state when DoMain reaches line 186: the options are parsed and the
\* model and the dataset are loaded.
InitFor(poolSizes, blockSizes, repetitions) ==
    /\ pc = "size"
    /\ exitCode = <<>>
    /\ docsCount \in poolSizes
    /\ BlockSize \in blockSizes
    /\ RepetitionCount \in repetitions
    /\ blockCount = 0
    /\ blockId = 0
    /\ transpFactorsRef = <<>>
    /\ nonTranspFactorsRef = <<>>
    /\ keyIdx = 0
    /\ modules = <<>>
    /\ biggestPriority = MinInt
    /\ BaseResultName = 0
    /\ Results = EmptyMap
    /\ i = 0
    /\ modIdx = 0
    /\ layout = ObjectsFirst
    /\ cerrKeys = <<>>
    /\ calls = <<>>
    /\ report = <<>>
    /\ resultsFile = <<>>
    /\ canon = <<>>
    /\ canonCalls = <<>>
    /\ canonDiag = [thrown |-> FALSE, lines |-> <<>>]

Init == InitFor(0..MaxDocs, BlockSizeOptions(MaxDocs), 0..MaxReps)

Next ==
    \/ ComputeBlockSize
    \/ MaterializeBlock
    \/ DeclareResults
    \/ ConstructOk(RunKinds)
    \/ ConstructFail
    \/ CheckLayout
    \/ Invoke
    \/ OutputResults

\* The whole run of main, from line 186 to its return.
Spec == Init /\ [][Next]_vars

\* The run up to the end of the key loop (line 243), over every module kind.
NextSelect ==
    \/ ComputeBlockSize
    \/ MaterializeBlock
    \/ DeclareResults
    \/ ConstructOk(ModuleKinds)
    \/ ConstructFail

\* The options left at their defaults (lines 22-23): one block holding the
\* whole pool, one repetition.
InitSelect == InitFor(0..MaxDocs, {MaxDocs + 1}, {1})

SpecSelect == InitSelect /\ [][NextSelect]_vars

\* The run up to line 226, where the blocks are built, over larger pools.
InitBlocks == InitFor(0..MaxPoolDocs, BlockSizeOptions(MaxPoolDocs), {1})

NextBlocks ==
    \/ ComputeBlockSize
    \/ MaterializeBlock
    \/ DeclareResults

SpecBlocks == InitBlocks /\ [][NextBlocks]_vars

\* ---------------------------------------------------------- TCanonData
\* Faulty variant of StoreReference: every call overwrites the reference.
StoreLatest(ref, blockResult) == blockResult

\* Lines 125-127: the reference after the `if (Results[blockId].empty())`.
StoreReference(ref, blockResult) == IF ref = <<>> THEN blockResult ELSE ref

Abs(x) == IF x < 0 THEN -x ELSE x

\* The loop of lines 130-134: one LabeledDump line per element further than
\* Epsilon from the reference (element indices are the source's, from 0).
Diagnostics(b, blockResult, ref) ==
    LET RECURSIVE From(_)
        From(k) ==
            IF k > Len(blockResult) THEN <<>>
            ELSE (IF Abs(blockResult[k] - ref[k]) > Epsilon
                    THEN <<[blockId |-> b, i |-> k - 1, value |-> blockResult[k],
                            ref |-> ref[k], delta |-> blockResult[k] - ref[k]]>>
                    ELSE <<>>) \o From(k + 1)
    IN  From(1)

\* TCanonData::CheckOrSet(blockId, blockResult), lines 124-135.  A failed
\* CB_ENSURE throws to the caller after the reference was (or was not) set.
CheckOrSet(b, blockResult) ==
    /\ pc = "canon"
    /\ Len(canonCalls) < MaxCanonCalls
    /\ b \in DOMAIN canon
    /\ LET ref == StoreReference(canon[b], blockResult) IN
       /\ canon' = [canon EXCEPT ![b] = ref]
       /\ canonDiag' = IF Len(blockResult) = Len(ref)
                         THEN [thrown |-> FALSE, lines |-> Diagnostics(b, blockResult, ref)]
                         ELSE [thrown |-> TRUE, lines |-> <<>>]
    /\ canonCalls' = Append(canonCalls, [blockId |-> b, blockResult |-> blockResult])
    /\ UNCHANGED pc
    /\ UNCHANGED driverVars

\* Vectors of at most n doubles.
VectorsUpTo(n) == UNION {[1..len -> CanonValues] : len \in 0..n}

\* A TCanonData just constructed, used on its own by a caller that makes any
\* sequence of CheckOrSet calls (the driver constructs one and never calls it).
InitCanon ==
    /\ pc = "canon"
    /\ exitCode = <<>>
    /\ docsCount = 0
    /\ BlockSize = 0
    /\ RepetitionCount = 0
    /\ blockCount \in CanonBlockCounts
    /\ blockId = 0
    /\ transpFactorsRef = <<>>
    /\ nonTranspFactorsRef = <<>>
    /\ keyIdx = 0
    /\ modules = <<>>
    /\ biggestPriority = MinInt
    /\ BaseResultName = 0
    /\ Results = EmptyMap
    /\ i = 0
    /\ modIdx = 0
    /\ layout = ObjectsFirst
    /\ cerrKeys = <<>>
    /\ calls = <<>>
    /\ report = <<>>
    /\ resultsFile = <<>>
    /\ canon = NewCanonData(blockCount)
    /\ canonCalls = <<>>
    /\ canonDiag = [thrown |-> FALSE, lines |-> <<>>]

NextCanon ==
    \E b \in 0..(blockCount - 1), blockResult \in VectorsUpTo(MaxCanonLen) :
        CheckOrSet(b, blockResult)

SpecCanon == InitCanon /\ [][NextCanon]_vars

\* ===================================================================
\* Properties
\* ===================================================================
Range(seq) == {seq[k] : k \in 1..Len(seq)}

\* The constructed module a logged invocation belongs to.
ModuleOfKey(key) == modules[CHOOSE m \in 1..Len(modules) : modules[m].key = key]

\* The (module, layout) pairs the execution loop invokes: every constructed
\* module in every layout it supports.
RunPairs == {pair \in Range(modules) \X Layouts : SupportsLayout(pair[1], pair[2])}

\* The invocations logged for one (module key, layout, block).
CallsOf(key, l, b) ==
    {k \in 1..Len(calls) : calls[k].key = key /\ calls[k].layout = l /\ calls[k].block = b}

\* C1: every timing sample produced by invoking a variant on a block in a
\* layout is recorded in the Results Registry under the variant's display
\* name for that same layout (GetName(ObjectsFirst) for an objects-first
\* invocation, GetName(FeaturesFirst) for a features-first one).
C1_SampleKeyedByLayoutName ==
    \A k \in 1..Len(calls) :
        LET name == GetName(ModuleOfKey(calls[k].key), calls[k].layout) IN
        /\ name \in DOMAIN Results
        /\ calls[k].time \in Range(Results[name])

\* C2: if a baseline name was chosen then, when OutputResults is called,
\* BaseResultName is a key of the Results Registry.  Stated here for the runs
\* in which a (variant, layout) pair with that display name was invoked at
\* least once, the case the registry's precondition names; the claim covers
\* more runs and fails already on these.
C2_BaselineKeyPresent ==
    (/\ pc = "output"
     /\ BaseIsSet(BaseResultName)
     /\ \E k \in 1..Len(calls) :
            GetName(ModuleOfKey(calls[k].key), calls[k].layout) = BaseResultName)
    => BaseResultName \in DOMAIN Results

\* C3: after a run with RepetitionCount = N over blockCount blocks, every
\* (variant, layout, block) that ran contributed exactly N samples, and the
\* aggregator under each variant display name holds exactly N * blockCount
\* samples.  The second part is stated for runs whose invoked pairs have
\* pairwise distinct display names (a display name is a unique registry key).
C3_SamplesPerName ==
    pc = "output" =>
        /\ \A k \in 1..Len(calls) :
              Cardinality(CallsOf(calls[k].key, calls[k].layout, calls[k].block))
                  = RepetitionCount
        /\ (\A p, q \in RunPairs : GetName(p[1], p[2]) = GetName(q[1], q[2]) => p = q)
           => \A p \in RunPairs :
                 RepetitionCount > 0 =>
                    /\ GetName(p[1], p[2]) \in DOMAIN Results
                    /\ Len(Results[GetName(p[1], p[2])]) = RepetitionCount * blockCount

\* The (variant, layout) pairs of the constructed modules in the order the
\* key loop meets them: pair 2m-1 is module m objects-first, pair 2m is
\* module m features-first.
PairCount == 2 * Len(modules)

PairModule(n) == modules[(n + 1) \div 2]

PairLayout(n) == IF n % 2 = 1 THEN ObjectsFirst ELSE FeaturesFirst

PairPriority(n) == PairModule(n).priority[PairLayout(n)]

PairName(n) == PairModule(n).name[PairLayout(n)]

\* The first pair whose priority is the maximum over all pairs.
FirstMaxPair ==
    CHOOSE n \in 1..PairCount :
        /\ \A other \in 1..PairCount : PairPriority(other) <= PairPriority(n)
        /\ \A other \in 1..(n - 1) : PairPriority(other) < PairPriority(n)

KeyLoopDone == pc \notin {"size", "blocks", "construct"} /\ keyIdx > NumKeys

\* C4 as claimed: after all registered keys have been processed BaseResultName
\* is the display name of the first-met (variant, layout) pair whose priority
\* is the maximum over all constructed variants and both layouts.
C4_BaselineIsFirstMaximum ==
    (KeyLoopDone /\ modules # <<>>) => BaseResultName = PairName(FirstMaxPair)

\* C4 as amended: the same, provided the maximum priority is greater than
\* Min<int>(); when no pair's priority exceeds Min<int>() (or no variant was
\* constructed) no baseline is chosen and BaseResultName stays empty.
C4_BaselineIsFirstMaximumAboveMinInt ==
    KeyLoopDone =>
        IF modules # <<>> /\ PairPriority(FirstMaxPair) > MinInt
            THEN /\ BaseResultName = PairName(FirstMaxPair)
                 /\ biggestPriority = PairPriority(FirstMaxPair)
            ELSE /\ BaseResultName = 0
                 /\ biggestPriority = MinInt

\* C4 witness: two variants, the maximum is first met at the features-first
\* layout of the first variant and met again, under another name, by the
\* second variant; the first one is the baseline.
C4_Witness ==
    /\ KeyLoopDone
    /\ Len(modules) = 2
    /\ FirstMaxPair = 2
    /\ PairPriority(2) > PairPriority(1)
    /\ PairPriority(3) = PairPriority(2)
    /\ PairName(3) # PairName(2)
    /\ BaseResultName = PairName(2)

\* The documents of block k as each view holds them, in the view's order: the
\* objects-first view per document (every feature read from the same document),
\* the features-first view per feature column.
ObjectsFirstDocs(k) ==
    [docId \in DOMAIN nonTranspFactorsRef[k] |->
        {nonTranspFactorsRef[k][docId][f][2] : f \in DOMAIN nonTranspFactorsRef[k][docId]}]

FeaturesFirstDocs(k, f) ==
    [docId \in 0..(transpFactorsRef[k][f].size - 1) |-> transpFactorsRef[k][f].begin + docId]

BlockBuilt(k) == pc \notin {"size", "blocks"} \/ k < blockId

\* Block k covers exactly the documents [k*size, (k+1)*size), in order, in
\* both layouts and for every feature.
BlockCovers(k, size) ==
    /\ DOMAIN nonTranspFactorsRef[k] = 0..(size - 1)
    /\ \A docId \in 0..(size - 1) :
          /\ ObjectsFirstDocs(k)[docId] = {k * size + docId}
          /\ DOMAIN nonTranspFactorsRef[k][docId] = 0..(FactorsCount - 1)
          /\ \A f \in 0..(FactorsCount - 1) :
                nonTranspFactorsRef[k][docId][f] = Cell(f, k * size + docId)
    /\ DOMAIN transpFactorsRef[k] = 0..(FactorsCount - 1)
    /\ \A f \in 0..(FactorsCount - 1) :
          FeaturesFirstDocs(k, f) = [docId \in 0..(size - 1) |-> k * size + docId]

DocsInBlock(k) == {ObjectsFirstDocs(k)[docId] : docId \in DOMAIN nonTranspFactorsRef[k]}

\* C6: for docCount >= 1 and configured block size >= 1, blockSize =
\* min(configured, docCount) and blockCount = floor(docCount / blockSize);
\* block k covers exactly the documents [k*blockSize, (k+1)*blockSize) in both
\* layouts; blocks are pairwise disjoint, each holds exactly blockSize
\* documents, and exactly the documents from blockCount*blockSize on are in no
\* block.
C6_BlockPartition ==
    /\ [][(pc = "size" /\ docsCount >= 1 /\ BlockSize >= 1) =>
            /\ pc' = "blocks"
            /\ BlockSize' = (IF BlockSize <= docsCount THEN BlockSize ELSE docsCount)
            /\ blockCount' * BlockSize' <= docsCount
            /\ docsCount < (blockCount' + 1) * BlockSize'
            /\ docsCount' = docsCount]_vars
    /\ []((pc \in {"blocks", "construct"}) =>
            /\ DOMAIN nonTranspFactorsRef = 0..(blockCount - 1)
            /\ DOMAIN transpFactorsRef = 0..(blockCount - 1)
            /\ \A k \in 0..(blockCount - 1) : BlockBuilt(k) => BlockCovers(k, BlockSize)
            /\ pc = "construct" =>
                /\ \A k, n \in 0..(blockCount - 1) :
                      k # n => DocsInBlock(k) \cap DocsInBlock(n) = {}
                /\ \A k \in 0..(blockCount - 1) : Cardinality(DocsInBlock(k)) = BlockSize
                /\ (0..(docsCount - 1)) \ UNION {UNION DocsInBlock(k) : k \in 0..(blockCount - 1)}
                      = (blockCount * BlockSize)..(docsCount - 1))

\* C6 witness: the blocks of a pool of 7 documents in blocks of 3 are built:
\* two blocks, document 6 in none.
C6_Witness ==
    /\ pc = "construct"
    /\ docsCount = 7
    /\ BlockSize = 3
    /\ blockCount = 2
    /\ DocsInBlock(1) = {{3}, {4}, {5}}

\* C9: if the effective block size min(configured, docCount) is zero, the run
\* aborts with a fatal error before any block is materialized, any variant is
\* constructed or invoked and any report is rendered, and main returns a
\* non-zero status; nothing happens after the abort.
C9_EmptyPoolAborts ==
    /\ [][(pc = "size" /\ (BlockSize = 0 \/ docsCount = 0)) =>
            /\ pc' = "aborted"
            /\ exitCode' # <<>> /\ exitCode'[1] # 0
            /\ transpFactorsRef' = <<>> /\ nonTranspFactorsRef' = <<>>
            /\ modules' = <<>> /\ cerrKeys' = <<>> /\ calls' = <<>>
            /\ Results' = EmptyMap
            /\ report' = <<>> /\ resultsFile' = <<>>]_vars
    /\ [][pc # "aborted"]_vars

\* C9 witness: an empty pool with a positive configured block size aborted.
C9_Witness ==
    /\ pc = "aborted"
    /\ docsCount = 0
    /\ exitCode = <<-1>>
    /\ report = <<>>

\* The execution loop is over: OutputResults is about to be or was called.
RunOver == pc \in {"output", "done"} \/ (pc = "aborted" /\ report # <<>>)

\* Some aggregator of the registry holds the sample.
Recorded(time) == \E name \in DOMAIN Results : time \in Range(Results[name])

\* C5: when the construction of some registered keys throws, the run does not
\* abort; a variant whose construction failed is never added to modules, never
\* chosen as baseline and never has a sample recorded, and every variant whose
\* construction succeeded is still invoked (every repetition, supported layout
\* and block) and has its samples recorded.
C5_FailedConstructionIsolated ==
    /\ [][cerrKeys' # cerrKeys =>
            /\ cerrKeys' = Append(cerrKeys, keyIdx)
            /\ pc' \in {"construct", "layout", "output"}
            /\ exitCode' = <<>>
            /\ UNCHANGED <<modules, biggestPriority, BaseResultName, Results, calls>>]_vars
    /\ [](/\ \A k \in 1..Len(cerrKeys) :
               /\ \A m \in 1..Len(modules) : modules[m].key # cerrKeys[k]
               /\ \A c \in 1..Len(calls) : calls[c].key # cerrKeys[k]
          /\ pc \notin {"size", "blocks"} /\ keyIdx >= 1 =>
               /\ {modules[m].key : m \in 1..Len(modules)} \cup Range(cerrKeys)
                      = 1..(keyIdx - 1)
               /\ Len(modules) + Len(cerrKeys) = keyIdx - 1
          /\ RunOver =>
               \A m \in 1..Len(modules) : \A l \in Layouts :
                   SupportsLayout(modules[m], l) =>
                       \A b \in 0..(blockCount - 1) :
                           /\ Cardinality(CallsOf(modules[m].key, l, b)) = RepetitionCount
                           /\ \A c \in CallsOf(modules[m].key, l, b) : Recorded(calls[c].time))

\* C5 witness: the first key failed to construct, the second was constructed,
\* invoked and reported.
C5_Witness ==
    /\ pc = "done"
    /\ cerrKeys = <<1>>
    /\ Len(modules) = 1
    /\ modules[1].key = 2
    /\ Len(calls) >= 2

\* Position of an invocation in the loop nest: repetition, module (in
\* construction order, which is key order), layout, block.
LayoutRank(l) == IF l = ObjectsFirst THEN 0 ELSE 1

LoopBefore(c, d) ==
    \/ c.rep < d.rep
    \/ c.rep = d.rep /\ c.key < d.key
    \/ c.rep = d.rep /\ c.key = d.key /\ LayoutRank(c.layout) < LayoutRank(d.layout)
    \/ /\ c.rep = d.rep /\ c.key = d.key /\ c.layout = d.layout
       /\ c.block < d.block

\* C10: variants are invoked one at a time in lexicographic order of
\* (repetition, variant in construction/key order, layout with objects-first
\* first, block ascending), only in layouts they support; the terminal render
\* is called exactly once, after the last invocation of the last repetition.
C10_InvocationOrder ==
    /\ [](/\ \A k \in 1..(Len(calls) - 1) : LoopBefore(calls[k], calls[k + 1])
          /\ \A k \in 1..Len(calls) :
                /\ SupportsLayout(ModuleOfKey(calls[k].key), calls[k].layout)
                /\ calls[k].rep \in 0..(RepetitionCount - 1)
                /\ calls[k].block \in 0..(blockCount - 1)
                /\ calls[k].time = k
          /\ \A m \in 1..(Len(modules) - 1) : modules[m].key < modules[m + 1].key
          /\ report # <<>> => pc \in {"done", "aborted"}
          /\ resultsFile # <<>> => pc = "done"
          /\ RunOver => Len(calls) = RepetitionCount * Cardinality(RunPairs) * blockCount)
    /\ [][/\ calls' # calls => Len(calls') = Len(calls) + 1 /\ SubSeq(calls', 1, Len(calls)) = calls
          /\ report' # report => pc = "output" /\ report = <<>> /\ calls' = calls
          /\ pc \notin {"done", "aborted"}]_vars

\* C10 witness: two repetitions over two blocks of two variants, one of which
\* supports a single layout, ran to the end.
C10_Witness ==
    /\ pc = "done"
    /\ RepetitionCount = 2
    /\ blockCount >= 2
    /\ Len(modules) = 2
    /\ Cardinality(RunPairs) = 3
    /\ Len(calls) = 6 * blockCount

\* The names of the report's name lines, in the order they were written.
IsNameLine(line) == line.kind = "name"

RenderedNames ==
    LET lines == SelectSeq(report, IsNameLine) IN [k \in 1..Len(lines) |-> lines[k].name]

\* The report and results.json of a completed OutputResults show exactly the
\* names `shown`: the header, then per name a name line and a stats line; the
\* baseline (when set) first and against itself, the others in ascending order
\* against the baseline's aggregator (no ratio when there is no baseline).
RendersExactly(shown) ==
    LET names == RenderedNames IN
    /\ report[1] = Header
    /\ Len(report) = 1 + 2 * Len(names)
    /\ {names[k] : k \in 1..Len(names)} = shown
    /\ \A k, n \in 1..Len(names) : k # n => names[k] # names[n]
    /\ BaseIsSet(BaseResultName) => Len(names) >= 1 /\ names[1] = BaseResultName
    /\ \A k, n \in 1..Len(names) :
          (k < n /\ (BaseIsSet(BaseResultName) => k > 1)) => names[k] < names[n]
    /\ \A k \in 1..Len(names) :
          LET nameLine == report[2 * k]
              statsLine == report[2 * k + 1]
              times == Results[names[k]]
          IN  /\ nameLine = NameLine(names[k])
              /\ statsLine.kind = "stats" /\ statsLine.name = names[k]
              /\ statsLine.stats.min = MinElement(times)
              /\ statsLine.stats.max = MaxElement(times)
              /\ statsLine.stats.mean = Mean(times)
              /\ statsLine.stats.ratios =
                    IF BaseIsSet(BaseResultName)
                        THEN << <<MinElement(times), MinElement(Results[BaseResultName])>>,
                                <<MaxElement(times), MaxElement(Results[BaseResultName])>>,
                                <<Mean(times), Mean(Results[BaseResultName])>> >>
                        ELSE <<>>
    /\ Len(resultsFile) = 1
    /\ DOMAIN resultsFile[1] = shown
    /\ \A name \in shown : resultsFile[1][name] = GetJsonValue(Results[name])

\* C8 as claimed: OutputResults renders each variant name of the Results
\* Registry exactly once, the baseline first (when set) and compared against
\* itself, then every other name in ascending key order compared against the
\* baseline aggregator; results.json holds exactly the registry's names.
C8_RendersEveryName == pc = "done" => RendersExactly(DOMAIN Results)

\* C8 as amended: the same, except that while BaseResultName is empty (no
\* baseline) a registry entry whose name is the empty string is left out of
\* the report and of results.json (the loop skips the key equal to
\* BaseResultName).
C8_RendersEveryNameButEmptyBase ==
    pc = "done" =>
        RendersExactly(IF BaseIsSet(BaseResultName) THEN DOMAIN Results
                       ELSE (DOMAIN Results) \ {BaseResultName})

\* C8 witness: a report was rendered whose baseline is not the least name of
\* the registry.
C8_Witness ==
    /\ pc = "done"
    /\ BaseIsSet(BaseResultName)
    /\ \E name \in DOMAIN Results : name < BaseResultName
    /\ RenderedNames[1] = BaseResultName
    /\ Len(RenderedNames) = 2

\* The result vectors passed to CheckOrSet for block b, in call order.
ResultsOn(b) ==
    LET onBlock == SelectSeq(canonCalls, LAMBDA c : c.blockId = b)
    IN  [k \in 1..Len(onBlock) |-> onBlock[k].blockResult]

RECURSIVE FirstNonEmpty(_)
FirstNonEmpty(results) ==
    IF results = <<>> THEN <<>>
    ELSE IF Head(results) # <<>> THEN Head(results)
    ELSE FirstNonEmpty(Tail(results))

\* C7 as claimed: for every block and every sequence of CheckOrSet calls, the
\* stored reference is the result vector of the first call on that block (no
\* later call changes it, and calls on other blocks do not change it).
C7_ReferenceIsFirstResult ==
    \A b \in DOMAIN canon :
        IF ResultsOn(b) = <<>> THEN canon[b] = <<>> ELSE canon[b] = ResultsOn(b)[1]

\* C7 as amended: the stored reference is the result vector of the first call
\* on that block that passed a non-empty vector (empty until then); no later
\* call, matching, diverging or failing on size mismatch, changes it, and a
\* call on one block never changes another block's reference.
C7_ReferenceIsFirstNonEmptyResult ==
    /\ [](\A b \in DOMAIN canon : canon[b] = FirstNonEmpty(ResultsOn(b)))
    /\ [][\A b \in DOMAIN canon :
            \/ canon'[b] = canon[b]
            \/ /\ canon[b] = <<>>
               /\ canonCalls' = Append(canonCalls, [blockId |-> b, blockResult |-> canon'[b]])]_vars

\* C7 witness: a block's reference was set by a first call and kept by a
\* second call that failed on a size mismatch.
C7_Witness ==
    /\ pc = "canon"
    /\ Len(canonCalls) = 2
    /\ canonCalls[1].blockId = canonCalls[2].blockId
    /\ canonCalls[1].blockResult # <<>>
    /\ Len(canonCalls[2].blockResult) # Len(canonCalls[1].blockResult)
    /\ canonDiag.thrown
    /\ canon[canonCalls[1].blockId] = canonCalls[1].blockResult

====
